---- MODULE Spec2Model ----
(***************************************************************************)
(* Hospital kiosk backend (src/main.py, src/schemas.py): booking and       *)
(* check-in over one document collection, "appointment".                   *)
(*                                                                         *)
(* Python strings are modelled as tuples of one-character strings, so      *)
(* that slicing, upper-casing, replace() and %03d formatting are computed  *)
(* and not assumed.  A stored document is a function from field names to   *)
(* values; a field the document does not have is not in its DOMAIN.        *)
(* Request handlers run in a thread pool: a handler is split at the points *)
(* where it has read the collection and has not yet written to it.         *)
(***************************************************************************)
EXTENDS Integers, Sequences, FiniteSets, TLC

\* ------------------------------------------------------------------ bounds

\* Number of requests one behaviour issues.
MaxCalls == 3

\* Largest value of the clock read by datetime.utcnow().
MaxClock == 2

\* The request-handling threads.
Procs == {1, 2}

\* ----------------------------------------------------------------- strings

General == <<"G", "e", "n", "e", "r", "a", "l">>
Cardiology == <<"C", "a", "r", "d", "i", "o", "l", "o", "g", "y">>
Pediatrics == <<"P", "e", "d", "i", "a", "t", "r", "i", "c", "s">>
Radiology == <<"R", "a", "d", "i", "o", "l", "o", "g", "y">>
Orthopedics == <<"O", "r", "t", "h", "o", "p", "e", "d", "i", "c", "s">>

\* A department name that is in neither list.
Dental == <<"D", "e", "n", "t", "a", "l">>

\* Python None: a one-element tuple that no string (tuple of characters) equals.
None == <<"<None>">>

Lowercase ==
    <<"a", "b", "c", "d", "e", "f", "g", "h", "i", "j", "k", "l", "m",
      "n", "o", "p", "q", "r", "s", "t", "u", "v", "w", "x", "y", "z">>

Uppercase ==
    <<"A", "B", "C", "D", "E", "F", "G", "H", "I", "J", "K", "L", "M",
      "N", "O", "P", "Q", "R", "S", "T", "U", "V", "W", "X", "Y", "Z">>

DigitChars == <<"0", "1", "2", "3", "4", "5", "6", "7", "8", "9">>

IsDigit(c) == \E i \in DOMAIN DigitChars : DigitChars[i] = c

Min(a, b) == IF a <= b THEN a ELSE b

Max(a, b) == IF a >= b THEN a ELSE b

\* list membership: x in xs
In(x, xs) == \E i \in DOMAIN xs : xs[i] = x

\* bool(v) of an optional string: None and "" are falsy
Truthy(v) == v # None /\ Len(v) > 0

\* str.upper(), one character
UpperChar(c) ==
    IF \E i \in DOMAIN Lowercase : Lowercase[i] = c
    THEN Uppercase[CHOOSE i \in DOMAIN Lowercase : Lowercase[i] = c]
    ELSE c

\* str.upper()
Upper(s) == [i \in DOMAIN s |-> UpperChar(s[i])]

\* s[:n]
Slice(s, n) == SubSeq(s, 1, Min(n, Len(s)))

\* s.replace('-', '')
RemoveDashes(s) == SelectSeq(s, LAMBDA c : c # "-")

\* str(n) for n >= 0
RECURSIVE Decimal(_)
Decimal(n) ==
    IF n < 10 THEN <<DigitChars[n + 1]>>
    ELSE Decimal(n \div 10) \o <<DigitChars[(n % 10) + 1]>>

\* zero padding on the left up to width w; longer strings are kept whole
RECURSIVE ZeroPad(_, _)
ZeroPad(s, w) == IF Len(s) >= w THEN s ELSE ZeroPad(<<"0">> \o s, w)

\* f"{n:03d}"
Format03d(n) == ZeroPad(Decimal(n), 3)

\* ---------------------------------------------------------- configuration

DEPARTMENTS == <<General, Cardiology, Pediatrics, Radiology, Orthopedics>>

DEPARTMENT_CAPACITY == 25

\* schemas.DepartmentName, the Literal the request models validate against
DepartmentName == {General, Cardiology, Pediatrics, Radiology, Orthopedics}

\* ------------------------------------------------------------ request data

Ann == <<"A", "n", "n">>
Bob == <<"B", "o", "b">>

\* a one-character name: AppointmentCreate accepts it, Appointment does not
ShortName == <<"A">>

Phone == <<"5", "5", "5">>

Date1 == <<"2", "0", "2", "4", "-", "0", "5", "-", "0", "1">>
Date2 == <<"2", "0", "2", "4", "-", "0", "5", "-", "0", "2">>

\* a date that is not of the shape YYYY-MM-DD
BadDate == <<"2", "0", "2", "4", "-", "5", "-", "1">>

\* Field(pattern=r"^\d{4}-\d{2}-\d{2}$")
MatchesDatePattern(s) ==
    /\ Len(s) = 10
    /\ \A i \in {1, 2, 3, 4, 6, 7, 9, 10} : IsDigit(s[i])
    /\ s[5] = "-"
    /\ s[8] = "-"

\* schemas.AppointmentCreate: only department is constrained
ValidAppointmentCreate(p) == p.department \in DepartmentName

\* schemas.Appointment: patient_name min_length 2, department Literal, date pattern
ValidAppointment(p) ==
    /\ Len(p.patient_name) >= 2
    /\ p.department \in DepartmentName
    /\ MatchesDatePattern(p.date)

AppointmentCreate(name, department, date) ==
    [patient_name |-> name, phone |-> Phone, email |-> None,
     department |-> department, date |-> date, time_slot |-> None]

\* the booking every initial store is filled with
HotBooking == AppointmentCreate(Ann, Cardiology, Date1)

\* the request bodies POST /appointments is called with
CreatePayloads ==
    {HotBooking,
     AppointmentCreate(Ann, General, Date1),
     AppointmentCreate(Bob, Cardiology, Date2),
     AppointmentCreate(ShortName, Cardiology, Date1),
     AppointmentCreate(Ann, Cardiology, BadDate),
     AppointmentCreate(Ann, Dental, Date1)}

\* ------------------------------------------------------------ HTTP results

UnknownDepartment == "Unknown department"
NoSlots == "No slots available for this date and department"
DatabaseNotAvailable == "Database not available"
MissingCheckInFields == "Provide booking_code or name, phone, department and date"
AppointmentNotFound == "Appointment not found"
\* raised by pydantic: 422 on a request body, 500 inside a handler
ValidationError == "validation error"

NoBody == [none |-> TRUE]
NoPayload == [none |-> TRUE]

Response(p, op, req, code, detail, body) ==
    [proc |-> p, op |-> op, payload |-> req,
     status_code |-> code, detail |-> detail, body |-> body]

\* ------------------------------------------------------------------- state

VARIABLES
    db,       \* TRUE when database.db is not None
    store,    \* the collection "appointment", in insertion order
    clock,    \* the value datetime.utcnow() returned last
    pc,       \* per thread: "idle", "insert" (create_appointment has counted),
              \*             "update" (check_in has found a booked appointment)
    payload,  \* per thread: the request body of the handler in progress
    booked,   \* per thread: create_appointment's local variable booked
    appt,     \* per thread: check_in's local variable appt
    last,     \* the response of the handler that returned last
    calls     \* number of requests issued so far

vars == <<db, store, clock, pc, payload, booked, appt, last, calls>>

\* a document matches a query when it has every field of it, with that value
Matches(doc, query) ==
    \A f \in DOMAIN query : f \in DOMAIN doc /\ doc[f] = query[f]

\* a count of the appointments not yet checked in
CountBookedOnly(s, department, day_str) ==
    Cardinality({i \in DOMAIN s :
                    Matches(s[i], [department |-> department, date |-> day_str,
                                   status |-> "booked"])})

\* the $match and $count of count_booked_for, on collection s
CountIn(s, department, day_str) ==
    Cardinality({i \in DOMAIN s :
                    Matches(s[i], [department |-> department, date |-> day_str])})

count_booked_for(department, day_str) ==
    IF db THEN CountIn(store, department, day_str) ELSE 0

\* the booking code create_appointment builds from its payload and count
BookingCode(department, date, counter) ==
    Upper(Slice(department, 3)) \o RemoveDashes(date) \o <<"-">> \o Format03d(counter)

\* a document that is born with a check-in time
AppointmentWithCheckIn(p, booking_code) ==
    [patient_name |-> p.patient_name, phone |-> p.phone, email |-> p.email,
     department |-> p.department, date |-> p.date, time_slot |-> p.time_slot,
     status |-> "booked", booking_code |-> booking_code, checked_in_at |-> 0]

\* the document create_appointment hands to create_document
Appointment(p, booking_code) ==
    [patient_name |-> p.patient_name, phone |-> p.phone, email |-> p.email,
     department |-> p.department, date |-> p.date, time_slot |-> p.time_slot,
     status |-> "booked", booking_code |-> booking_code]

\* the store's identifier of the next document inserted
NextId(s) == Len(s) + 1

\* database.create_document: the collection with the document appended
create_document(s, doc) == Append(s, [id |-> NextId(s)] @@ doc)

\* the store after n non-interleaved bookings of HotBooking
RECURSIVE Prefill(_)
Prefill(n) ==
    IF n = 0 THEN <<>>
    ELSE create_document(Prefill(n - 1),
            Appointment(HotBooking, BookingCode(Cardiology, Date1, n)))

\* the numbers of bookings the initial stores hold
InitBooked == {0, DEPARTMENT_CAPACITY - 1}

\* the service starts with or without a database, on a store that earlier
\* non-interleaved bookings have filled
InitWith(counts) ==
    /\ db \in BOOLEAN
    /\ store \in IF db THEN {Prefill(n) : n \in counts} ELSE {<<>>}
    /\ clock = 0
    /\ pc = [p \in Procs |-> "idle"]
    /\ payload = [p \in Procs |-> NoPayload]
    /\ booked = [p \in Procs |-> 0]
    /\ appt = [p \in Procs |-> NoBody]
    /\ last = Response(0, "none", NoPayload, 0, "", NoBody)
    /\ calls = 0

Init == InitWith(InitBooked)

\* ------------------------------------------------------ POST /appointments

\* the handler returns: the thread is idle again
Return(p, op, req, code, detail, body) ==
    /\ pc' = [pc EXCEPT ![p] = "idle"]
    /\ payload' = [payload EXCEPT ![p] = NoPayload]
    /\ booked' = [booked EXCEPT ![p] = 0]
    /\ appt' = [appt EXCEPT ![p] = NoBody]
    /\ last' = Response(p, op, req, code, detail, body)

\* a capacity check that lets one booking too many through
FullOffByOne(n) == n > DEPARTMENT_CAPACITY

\* a capacity check that refuses the last slot
FullOneEarly(n) == n >= DEPARTMENT_CAPACITY - 1

\* the capacity check
Full(n) == n >= DEPARTMENT_CAPACITY

\* create_appointment up to and including the capacity check
create_appointment_check(p) ==
    /\ pc[p] = "idle"
    /\ calls < MaxCalls
    /\ calls' = calls + 1
    /\ \E req \in CreatePayloads :
        LET n == count_booked_for(req.department, req.date) IN
        IF ~ValidAppointmentCreate(req) THEN
            /\ Return(p, "create_appointment", req, 422, ValidationError, NoBody)
            /\ UNCHANGED <<db, store, clock>>
        ELSE IF ~In(req.department, DEPARTMENTS) THEN
            /\ Return(p, "create_appointment", req, 400, UnknownDepartment, NoBody)
            /\ UNCHANGED <<db, store, clock>>
        ELSE IF Full(n) THEN
            /\ Return(p, "create_appointment", req, 400, NoSlots, NoBody)
            /\ UNCHANGED <<db, store, clock>>
        ELSE
            /\ pc' = [pc EXCEPT ![p] = "insert"]
            /\ payload' = [payload EXCEPT ![p] = req]
            /\ booked' = [booked EXCEPT ![p] = n]
            /\ UNCHANGED <<db, store, clock, appt, last>>

\* a counter that starts at zero
CounterFromZero(n) == n

\* the counter create_appointment numbers the booking with
Counter(n) == n + 1

\* a count taken again when the booking is inserted
CountedAgain(p) == count_booked_for(payload[p].department, payload[p].date)

\* the count create_appointment numbers the booking from: the one it took
\* before the capacity check
Counted(p) == booked[p]

\* create_appointment from the booking code to the response
create_appointment_insert(p) ==
    /\ pc[p] = "insert"
    /\ LET req == payload[p]
           booking_code == BookingCode(req.department, req.date, Counter(Counted(p)))
       IN
        IF ~ValidAppointment(req) THEN
            /\ Return(p, "create_appointment", req, 500, ValidationError, NoBody)
            /\ UNCHANGED <<db, store, clock, calls>>
        ELSE IF ~db THEN
            /\ Return(p, "create_appointment", req, 500, DatabaseNotAvailable, NoBody)
            /\ UNCHANGED <<db, store, clock, calls>>
        ELSE
            /\ store' = create_document(store, Appointment(req, booking_code))
            /\ Return(p, "create_appointment", req, 200, "",
                      [id |-> Decimal(NextId(store)),
                       booking_code |-> booking_code, status |-> "booked"])
            /\ UNCHANGED <<db, clock, calls>>

\* ----------------------------------------------------------- POST /checkin

CheckInRequest(code, name, phone, department, date) ==
    [booking_code |-> code, patient_name |-> name, phone |-> phone,
     department |-> department, date |-> date]

\* a booking code no appointment carries
UnknownCode == <<"X", "X", "X">>

\* the request bodies POST /checkin is called with
CheckInPayloads ==
    {CheckInRequest(BookingCode(Cardiology, Date1, 1), None, None, None, None),
     CheckInRequest(BookingCode(Cardiology, Date1, 1), Bob, Phone, General, Date2),
     CheckInRequest(UnknownCode, None, None, None, None),
     CheckInRequest(None, Ann, Phone, Cardiology, Date1),
     CheckInRequest(None, Bob, Phone, Cardiology, Date2),
     CheckInRequest(None, Ann, Phone, None, Date1)}

\* schemas.CheckInRequest: department is None or a DepartmentName
ValidCheckInRequest(r) == r.department = None \/ r.department \in DepartmentName

\* a fallback that does not ask for the department
AllRequiredButDepartment(r) ==
    /\ Truthy(r.patient_name)
    /\ Truthy(r.phone)
    /\ Truthy(r.date)

\* check_in's fallback needs every one of the four fields
AllRequired(r) ==
    /\ Truthy(r.patient_name)
    /\ Truthy(r.phone)
    /\ Truthy(r.department)
    /\ Truthy(r.date)

\* a query on every field the request gives
CheckInQueryAllGiven(r) == [f \in {g \in DOMAIN r : Truthy(r[g])} |-> r[f]]

\* the query check_in builds: a function from field names to values
CheckInQuery(r) ==
    IF Truthy(r.booking_code)
    THEN [f \in {"booking_code"} |-> r.booking_code]
    ELSE [f \in {"patient_name", "phone", "department", "date"} |-> r[f]]

\* the positions of the documents of s that match
Found(s, query) == {i \in DOMAIN s : Matches(s[i], query)}

\* collection.find_one: the first matching document in insertion order
find_one(s, query) ==
    LET hits == Found(s, query)
    IN s[CHOOSE i \in hits : \A j \in hits : i <= j]

\* an update that flips the status
StatusToggled(doc, now) ==
    [f \in DOMAIN doc \cup {"status", "checked_in_at"} |->
        IF f = "status"
        THEN (IF doc.status = "checked_in" THEN "booked" ELSE "checked_in")
        ELSE IF f = "checked_in_at" THEN now
        ELSE doc[f]]

\* an update without $set: the document is replaced
Replaced(doc, now) == [id |-> doc.id, status |-> "checked_in", checked_in_at |-> now]

\* the document after the $set of check_in's update_one
CheckedIn(doc, now) ==
    [f \in DOMAIN doc \cup {"status", "checked_in_at"} |->
        IF f = "status" THEN "checked_in"
        ELSE IF f = "checked_in_at" THEN now
        ELSE doc[f]]

\* an update of every document of the collection
update_all(s, id, now) == [i \in DOMAIN s |-> CheckedIn(s[i], now)]

\* collection.update_one({"_id": id}, {"$set": ...})
update_one(s, id, now) ==
    [i \in DOMAIN s |-> IF s[i].id = id THEN CheckedIn(s[i], now) ELSE s[i]]

\* a body that reports the status check_in read
CheckInBodyAsRead(doc) ==
    [id |-> Decimal(doc.id), status |-> doc.status, booking_code |-> doc.booking_code]

\* the body check_in returns for the document it found
CheckInBody(doc) ==
    [id |-> Decimal(doc.id), status |-> "checked_in", booking_code |-> doc.booking_code]

\* a check_in that updates whatever it finds
NeverCheckedIn(doc) == FALSE

\* check_in's test for an appointment that needs no update
AlreadyCheckedIn(doc) == doc.status = "checked_in"

\* check_in up to the point where it has found a booked appointment
check_in_find(p) ==
    /\ pc[p] = "idle"
    /\ calls < MaxCalls
    /\ calls' = calls + 1
    /\ \E req \in CheckInPayloads :
        IF ~ValidCheckInRequest(req) THEN
            /\ Return(p, "check_in", req, 422, ValidationError, NoBody)
            /\ UNCHANGED <<db, store, clock>>
        ELSE IF ~db THEN
            /\ Return(p, "check_in", req, 500, DatabaseNotAvailable, NoBody)
            /\ UNCHANGED <<db, store, clock>>
        ELSE IF ~Truthy(req.booking_code) /\ ~AllRequired(req) THEN
            /\ Return(p, "check_in", req, 400, MissingCheckInFields, NoBody)
            /\ UNCHANGED <<db, store, clock>>
        ELSE IF Found(store, CheckInQuery(req)) = {} THEN
            /\ Return(p, "check_in", req, 404, AppointmentNotFound, NoBody)
            /\ UNCHANGED <<db, store, clock>>
        ELSE
            LET doc == find_one(store, CheckInQuery(req)) IN
            IF AlreadyCheckedIn(doc) THEN
                /\ Return(p, "check_in", req, 200, "", CheckInBody(doc))
                /\ UNCHANGED <<db, store, clock>>
            ELSE
                /\ pc' = [pc EXCEPT ![p] = "update"]
                /\ payload' = [payload EXCEPT ![p] = req]
                /\ appt' = [appt EXCEPT ![p] = doc]
                /\ UNCHANGED <<db, store, clock, booked, last>>

\* check_in's update_one and response
check_in_update(p) ==
    /\ pc[p] = "update"
    /\ \E now \in clock .. Min(clock + 1, MaxClock) :
        /\ clock' = now
        /\ store' = update_one(store, appt[p].id, now)
    /\ Return(p, "check_in", payload[p], 200, "", CheckInBody(appt[p]))
    /\ UNCHANGED <<db, calls>>

\* ---------------------------------------------------------- read endpoints

\* int(round(a / b)) for a >= 0, b > 0: Python rounds halves to even
RoundDiv(a, b) ==
    LET q == a \div b
        r == a % b
    IN IF 2 * r < b THEN q
       ELSE IF 2 * r > b THEN q + 1
       ELSE IF q % 2 = 0 THEN q
       ELSE q + 1

\* a fraction that is not multiplied by 100
UsedPctFraction(n) ==
    IF DEPARTMENT_CAPACITY # 0 THEN RoundDiv(n, DEPARTMENT_CAPACITY) ELSE 0

\* used_pct as get_availability and calendar_availability compute it
UsedPct(n) ==
    IF DEPARTMENT_CAPACITY # 0 THEN RoundDiv(n * 100, DEPARTMENT_CAPACITY) ELSE 0

\* remaining without the lower bound 0
RemainingUnclamped(n) == DEPARTMENT_CAPACITY - n

\* remaining as get_availability and calendar_availability compute it
Remaining(n) == Max(0, DEPARTMENT_CAPACITY - n)

\* GET /departments
get_departments(p) ==
    /\ pc[p] = "idle"
    /\ calls < MaxCalls
    /\ calls' = calls + 1
    /\ Return(p, "get_departments", NoPayload, 200, "",
              [i \in DOMAIN DEPARTMENTS |->
                  [name |-> DEPARTMENTS[i], capacity |-> DEPARTMENT_CAPACITY]])
    /\ UNCHANGED <<db, store, clock>>

\* the (department, date) pairs GET /availability is called with
AvailabilityQueries ==
    {[department |-> Cardiology, date |-> Date1],
     [department |-> General, date |-> Date1]}

\* the figures get_availability reports for a department and date
AvailabilityBody(department, date) ==
    LET n == count_booked_for(department, date)
    IN [department |-> department, date |-> date,
        capacity |-> DEPARTMENT_CAPACITY, booked |-> n,
        remaining |-> Remaining(n), used_pct |-> UsedPct(n)]

\* GET /availability
get_availability(p) ==
    /\ pc[p] = "idle"
    /\ calls < MaxCalls
    /\ calls' = calls + 1
    /\ \E q \in AvailabilityQueries :
        IF q.department \notin DepartmentName THEN
            Return(p, "get_availability", q, 422, ValidationError, NoBody)
        ELSE IF ~In(q.department, DEPARTMENTS) THEN
            Return(p, "get_availability", q, 400, UnknownDepartment, NoBody)
        ELSE
            Return(p, "get_availability", q, 200, "",
                   AvailabilityBody(q.department, q.date))
    /\ UNCHANGED <<db, store, clock>>

IsLeap(year) == (year % 4 = 0 /\ year % 100 # 0) \/ year % 400 = 0

DaysInMonth(year, month) ==
    IF month = 2 THEN (IF IsLeap(year) THEN 29 ELSE 28)
    ELSE IF month \in {4, 6, 9, 11} THEN 30
    ELSE 31

\* a calendar in which every month has 31 days
AnyDay(year, month, day) == TRUE

\* date(year, month, day) does not raise ValueError
ValidDate(year, month, day) == 1 <= day /\ day <= DaysInMonth(year, month)

\* date(year, month, day).strftime("%Y-%m-%d")
FormatDate(year, month, day) ==
    ZeroPad(Decimal(year), 4) \o <<"-">> \o ZeroPad(Decimal(month), 2)
        \o <<"-">> \o ZeroPad(Decimal(day), 2)

\* the days dictionary of calendar_availability, in insertion order
CalendarDays(department, year, month) ==
    LET valid == SelectSeq([d \in 1 .. 31 |-> d],
                           LAMBDA d : ValidDate(year, month, d))
    IN [i \in DOMAIN valid |->
           LET d_str == FormatDate(year, month, valid[i])
               n == count_booked_for(department, d_str)
           IN [date |-> d_str, booked |-> n, remaining |-> Remaining(n),
               used_pct |-> UsedPct(n), capacity |-> DEPARTMENT_CAPACITY]]

\* the (department, year, month) triples GET /calendar-availability is called with
CalendarQueries == {[department |-> Cardiology, year |-> 2024, month |-> 5]}

\* GET /calendar-availability, called with one of the given triples
calendar_availability_of(p, queries) ==
    /\ pc[p] = "idle"
    /\ calls < MaxCalls
    /\ calls' = calls + 1
    /\ \E q \in queries :
        IF \/ q.department \notin DepartmentName
           \/ q.year < 1970 \/ q.year > 2100
           \/ q.month < 1 \/ q.month > 12
        THEN
            Return(p, "calendar_availability", q, 422, ValidationError, NoBody)
        ELSE IF ~In(q.department, DEPARTMENTS) THEN
            Return(p, "calendar_availability", q, 400, UnknownDepartment, NoBody)
        ELSE
            Return(p, "calendar_availability", q, 200, "",
                   [department |-> q.department, year |-> q.year, month |-> q.month,
                    days |-> CalendarDays(q.department, q.year, q.month)])
    /\ UNCHANGED <<db, store, clock>>

\* GET /calendar-availability
calendar_availability(p) == calendar_availability_of(p, CalendarQueries)

\* a listing that drops its parameters
ListQueryUnfiltered(q) == [f \in {} |-> None]

\* the query a listing builds from its optional parameters
ListQuery(q) == [f \in {g \in DOMAIN q : Truthy(q[g])} |-> q[f]]

\* database.get_documents: the matching documents, in insertion order
get_documents(s, query) == SelectSeq(s, LAMBDA doc : Matches(doc, query))

\* the (department, date) filters GET /appointments is called with
ListQueries == {[department |-> Cardiology, date |-> None]}

\* d["id"] = str(d.pop("_id"))
WithStringId(doc) == [f \in DOMAIN doc |-> IF f = "id" THEN Decimal(doc.id) ELSE doc[f]]

\* GET /appointments
list_appointments(p) ==
    /\ pc[p] = "idle"
    /\ calls < MaxCalls
    /\ calls' = calls + 1
    /\ \E q \in ListQueries :
        IF ~db THEN
            Return(p, "list_appointments", q, 500, DatabaseNotAvailable, NoBody)
        ELSE
            LET docs == get_documents(store, ListQuery(q))
            IN Return(p, "list_appointments", q, 200, "",
                      [i \in DOMAIN docs |-> WithStringId(docs[i])])
    /\ UNCHANGED <<db, store, clock>>

\* the date filters GET /patients is called with
PatientQueries == {[date |-> None], [date |-> Date1]}

\* one entry of the patients list
Patient(doc) ==
    [id |-> Decimal(doc.id), patient_name |-> doc.patient_name, phone |-> doc.phone,
     email |-> doc.email, department |-> doc.department, date |-> doc.date,
     status |-> doc.status, booking_code |-> doc.booking_code]

\* the summary of a patients list
Summary(out) ==
    [total |-> Len(out),
     checked_in |-> Cardinality({i \in DOMAIN out : out[i].status = "checked_in"}),
     booked |-> Cardinality({i \in DOMAIN out : out[i].status # "checked_in"})]

\* GET /patients
patients_tracking(p) ==
    /\ pc[p] = "idle"
    /\ calls < MaxCalls
    /\ calls' = calls + 1
    /\ \E q \in PatientQueries :
        IF ~db THEN
            Return(p, "patients_tracking", q, 500, DatabaseNotAvailable, NoBody)
        ELSE
            LET docs == get_documents(store, ListQuery(q))
                out == [i \in DOMAIN docs |-> Patient(docs[i])]
            IN Return(p, "patients_tracking", q, 200, "",
                      [summary |-> Summary(out), patients |-> out])
    /\ UNCHANGED <<db, store, clock>>

\* ------------------------------------------------------------ specification

Next ==
    \E p \in Procs :
        \/ create_appointment_check(p)
        \/ create_appointment_insert(p)
        \/ check_in_find(p)
        \/ check_in_update(p)
        \/ get_departments(p)
        \/ get_availability(p)
        \/ calendar_availability(p)
        \/ list_appointments(p)
        \/ patients_tracking(p)

Spec == Init /\ [][Next]_vars

\* create_appointment calls do not interleave: none starts while another has
\* counted and not yet inserted
NoCreateInProgress == \A q \in Procs : pc[q] # "insert"

NextSeq ==
    \E p \in Procs :
        \/ NoCreateInProgress /\ create_appointment_check(p)
        \/ create_appointment_insert(p)
        \/ check_in_find(p)
        \/ check_in_update(p)
        \/ get_departments(p)
        \/ get_availability(p)
        \/ calendar_availability(p)
        \/ list_appointments(p)
        \/ patients_tracking(p)

SpecSeq == Init /\ [][NextSeq]_vars

\* non-interleaved bookings alone, from every number of earlier bookings
InitBookings == InitWith(0 .. DEPARTMENT_CAPACITY)

NextBookings ==
    \E p \in Procs :
        \/ NoCreateInProgress /\ create_appointment_check(p)
        \/ create_appointment_insert(p)

SpecBookings == InitBookings /\ [][NextBookings]_vars

\* the years the calendar is asked about: the ends of the range, a leap
\* year, a year that is none, 2000 (leap) and 2100 (not leap)
CalendarYears == {1970, 2000, 2023, 2024, 2100}

\* every month of those years, and triples the query constraints refuse
AllCalendarQueries ==
    [department : {Cardiology}, year : CalendarYears, month : 1 .. 12]
        \cup {[department |-> Cardiology, year |-> 1969, month |-> 12],
              [department |-> Cardiology, year |-> 2101, month |-> 1],
              [department |-> Cardiology, year |-> 2024, month |-> 0],
              [department |-> Cardiology, year |-> 2024, month |-> 13],
              [department |-> Dental, year |-> 2024, month |-> 5]}

\* the calendar of every month
NextCalendar == \E p \in Procs : calendar_availability_of(p, AllCalendarQueries)

\* the calendar is read on a store that is empty or holds two bookings
InitCalendar == InitWith({0, 2})

SpecCalendar == InitCalendar /\ [][NextCalendar]_vars

\* ------------------------------------------------------------------ claims

\* in this step thread p has run the handler op, or the last part of it, and
\* returned
Returned(p, op) ==
    /\ pc'[p] = "idle"
    /\ last'.proc = p
    /\ last'.op = op
    /\ \/ pc[p] # "idle"
       \/ calls' = calls + 1 /\ pc' = pc

\* the number of stored appointments of the department and date of request r
CountFor(s, r) == CountIn(s, r.department, r.date)

\* the request a create_appointment_check step of thread p was called with
CheckedRequest(p) == IF pc'[p] = "insert" THEN payload'[p] ELSE last'.payload

\* C1: with non-interleaved bookings, no department and date ever holds more
\* than DEPARTMENT_CAPACITY stored appointments.
C1_CapacityRespected ==
    \A r \in {[department |-> store[i].department, date |-> store[i].date] :
                i \in DOMAIN store} :
        CountIn(store, r.department, r.date) <= DEPARTMENT_CAPACITY

\* a booking was refused on a department and date that is exactly full
C1_Witness ==
    /\ CountIn(store, Cardiology, Date1) = DEPARTMENT_CAPACITY
    /\ last.op = "create_appointment"
    /\ last.detail = NoSlots

\* C2 as stated: with non-interleaved bookings on an available store, every
\* call made while fewer than DEPARTMENT_CAPACITY appointments exist for its
\* department and date succeeds, and every call made at capacity is refused
\* and persists nothing.
C2_AsStated ==
    [][\A p \in Procs :
        /\ create_appointment_check(p) =>
            LET req == CheckedRequest(p)
                n == count_booked_for(req.department, req.date)
            IN /\ n >= DEPARTMENT_CAPACITY =>
                    /\ pc'[p] = "idle"
                    /\ last'.status_code = 400
                    /\ last'.detail = NoSlots
                    /\ store' = store
               /\ (req.department \in DepartmentName /\ n < DEPARTMENT_CAPACITY) =>
                    pc'[p] = "insert"
        /\ (create_appointment_insert(p) /\ db) =>
            /\ count_booked_for(payload[p].department, payload[p].date)
                    < DEPARTMENT_CAPACITY
            /\ last'.status_code = 200
            /\ CountFor(store', payload[p]) = CountFor(store, payload[p]) + 1
      ]_vars

\* C2, amended: with non-interleaved bookings, the store available and a
\* request the Appointment schema accepts, every call made while fewer than
\* DEPARTMENT_CAPACITY appointments exist for its department and date succeeds
\* and adds one appointment to them; every call made at capacity is refused
\* with NoSlots and persists nothing.
C2_Boundary ==
    [][\A p \in Procs :
        /\ create_appointment_check(p) =>
            LET req == CheckedRequest(p)
                n == count_booked_for(req.department, req.date)
            IN /\ n >= DEPARTMENT_CAPACITY =>
                    /\ pc'[p] = "idle"
                    /\ last'.status_code = 400
                    /\ last'.detail = NoSlots
                    /\ store' = store
               /\ (db /\ ValidAppointment(req) /\ n < DEPARTMENT_CAPACITY) =>
                    pc'[p] = "insert"
        /\ (create_appointment_insert(p) /\ db /\ ValidAppointment(payload[p])) =>
            /\ CountFor(store, payload[p]) < DEPARTMENT_CAPACITY
            /\ last'.status_code = 200
            /\ last'.body.status = "booked"
            /\ Len(store') = Len(store) + 1
            /\ CountFor(store', payload[p]) = CountFor(store, payload[p]) + 1
      ]_vars

\* the booking that fills the department and date has succeeded
C2_Witness ==
    /\ CountIn(store, Cardiology, Date1) = DEPARTMENT_CAPACITY
    /\ last.op = "create_appointment"
    /\ last.status_code = 200
    /\ last.payload = HotBooking
    /\ store[Len(store)].booking_code = last.body.booking_code

\* two stored appointments of one department and date carry the same code
DuplicateCodes(s) ==
    \E i, j \in DOMAIN s :
        /\ i < j
        /\ s[i].department = s[j].department
        /\ s[i].date = s[j].date
        /\ s[i].booking_code = s[j].booking_code

\* threads p and q have both counted for the same department and date and
\* nothing has been inserted for it since either count
Racing(p, q) ==
    /\ p # q
    /\ db
    /\ pc[p] = "insert" /\ pc[q] = "insert"
    /\ payload[p].department = payload[q].department
    /\ payload[p].date = payload[q].date
    /\ ValidAppointment(payload[p]) /\ ValidAppointment(payload[q])
    /\ booked[p] = CountFor(store, payload[p])
    /\ booked[q] = CountFor(store, payload[q])

\* the code thread q is about to assign is already carried by a stored
\* appointment of its department and date
CodeTaken(q) ==
    LET code == BookingCode(payload[q].department, payload[q].date,
                            Counter(Counted(q)))
    IN \E i \in DOMAIN store :
        /\ store[i].department = payload[q].department
        /\ store[i].date = payload[q].date
        /\ store[i].booking_code = code

\* C3: when two interleaved bookings for one department and date have both
\* counted before either inserts, then once the first has inserted the second
\* is still about to insert, under a code that is now taken; and when a
\* booking inserts under a taken code, two stored appointments carry the same
\* code, and, if the count read was DEPARTMENT_CAPACITY - 1, the department
\* and date holds more than DEPARTMENT_CAPACITY appointments and used_pct is
\* above 100.
C3_Race ==
    [][\A p, q \in Procs :
        /\ (Racing(p, q) /\ create_appointment_insert(p)) =>
            /\ pc'[q] = "insert"
            /\ CodeTaken(q)'
        /\ (pc[q] = "insert" /\ db /\ ValidAppointment(payload[q])
                /\ CodeTaken(q) /\ create_appointment_insert(q)) =>
            /\ DuplicateCodes(store')
            /\ booked[q] = DEPARTMENT_CAPACITY - 1 =>
                /\ CountFor(store', payload[q]) > DEPARTMENT_CAPACITY
                /\ UsedPct(CountFor(store', payload[q])) > 100
      ]_vars

\* the last slot is booked twice, under one code
C3_Witness ==
    /\ DuplicateCodes(store)
    /\ CountIn(store, Cardiology, Date1) > DEPARTMENT_CAPACITY
    /\ UsedPct(count_booked_for(Cardiology, Date1)) > 100
    /\ store[DEPARTMENT_CAPACITY].booking_code
          = store[DEPARTMENT_CAPACITY + 1].booking_code

\* C4: an appointment stored as checked_in is stored as checked_in after
\* every step of every handler, and every appointment added is booked.
C4_StatusMonotonic ==
    [][/\ \A i \in DOMAIN store :
            store[i].status = "checked_in" =>
                /\ i \in DOMAIN store'
                /\ store'[i].id = store[i].id
                /\ store'[i].status = "checked_in"
       /\ \A i \in DOMAIN store' \ DOMAIN store : store'[i].status = "booked"
      ]_vars

\* a booking has returned after an appointment was checked in
C4_Witness ==
    /\ \E i \in DOMAIN store : store[i].status = "checked_in"
    /\ last.op = "create_appointment"
    /\ last.status_code = 200

\* the request a check_in_find step of thread p was called with
FoundRequest(p) == IF pc'[p] = "update" THEN payload'[p] ELSE last'.payload

\* C5: a check_in by booking code called right after a check_in with the
\* same booking code has succeeded returns at once, with the same response,
\* and leaves the store, checked_in_at included, as it was.
C5_Idempotent ==
    [][\A p \in Procs :
        (/\ last.op = "check_in"
         /\ last.status_code = 200
         /\ Truthy(last.payload.booking_code)
         /\ check_in_find(p)
         /\ FoundRequest(p).booking_code = last.payload.booking_code) =>
            /\ pc'[p] = "idle"
            /\ last'.status_code = 200
            /\ last'.body = last.body
            /\ store' = store
      ]_vars

\* two requests were made, a check_in by booking code returned last, and the
\* appointment it names is checked in
C5_Witness ==
    /\ calls = 2
    /\ \A p \in Procs : pc[p] = "idle"
    /\ Len(store) = DEPARTMENT_CAPACITY - 1
    /\ last.op = "check_in"
    /\ last.status_code = 200
    /\ last.payload.booking_code = BookingCode(Cardiology, Date1, 1)
    /\ last.body.id = <<"1">>
    /\ store[1].status = "checked_in"
    /\ store[1].checked_in_at = clock

\* the stored document with that identifier
DocById(s, id) == s[CHOOSE i \in DOMAIN s : s[i].id = id]

\* C6: however check_in calls interleave, a check_in that has found its
\* appointment returns 200 with status checked_in, the identifier and the
\* code of that appointment, and the appointment is stored as checked_in
\* when it returns.
C6_ConcurrentCheckIn ==
    [][\A p \in Procs :
        /\ pc'[p] = "update" =>
            \E i \in DOMAIN store' : store'[i].id = appt'[p].id
        /\ (pc[p] = "update" /\ check_in_update(p)) =>
            /\ last'.status_code = 200
            /\ last'.body.status = "checked_in"
            /\ last'.body.id = Decimal(appt[p].id)
            /\ last'.body.booking_code = DocById(store', appt[p].id).booking_code
            /\ DocById(store', appt[p].id).status = "checked_in"
        /\ (pc[p] = "idle" /\ Returned(p, "check_in") /\ last'.status_code = 200) =>
            /\ last'.body.status = "checked_in"
            /\ \E i \in DOMAIN store' :
                /\ Decimal(store'[i].id) = last'.body.id
                /\ store'[i].booking_code = last'.body.booking_code
                /\ store'[i].status = "checked_in"
      ]_vars

\* both threads found the appointment booked, one has written, the other
\* is about to
C6_Witness ==
    \E q \in Procs :
        /\ pc[q] = "update"
        /\ appt[q].status = "booked"
        /\ DocById(store, appt[q].id).status = "checked_in"

HasCheckedInAt(doc) == "checked_in_at" \in DOMAIN doc

\* C7: checked_in_at is written only in a step that changes the status from
\* booked to checked_in: an appointment added has none, and one that is set
\* is never overwritten.
C7_TimestampOnlyOnTransition ==
    [][/\ \A i \in DOMAIN store' \ DOMAIN store : ~HasCheckedInAt(store'[i])
       /\ \A i \in DOMAIN store :
            /\ HasCheckedInAt(store[i]) =>
                /\ HasCheckedInAt(store'[i])
                /\ store'[i].checked_in_at = store[i].checked_in_at
            /\ (~HasCheckedInAt(store[i]) /\ HasCheckedInAt(store'[i])) =>
                /\ store[i].status = "booked"
                /\ store'[i].status = "checked_in"
      ]_vars

\* the first three letters of each department, in upper case
ExpectedPrefix(department) ==
    CASE department = General -> <<"G", "E", "N">>
      [] department = Cardiology -> <<"C", "A", "R">>
      [] department = Pediatrics -> <<"P", "E", "D">>
      [] department = Radiology -> <<"R", "A", "D">>
      [] department = Orthopedics -> <<"O", "R", "T">>

\* each date of the requests without its dashes
ExpectedDate(date) ==
    CASE date = Date1 -> <<"2", "0", "2", "4", "0", "5", "0", "1">>
      [] date = Date2 -> <<"2", "0", "2", "4", "0", "5", "0", "2">>

\* k below 1000 as three digits
ThreeDigits(k) ==
    <<DigitChars[(k \div 100) + 1], DigitChars[((k \div 10) % 10) + 1],
      DigitChars[(k % 10) + 1]>>

\* C8: with non-interleaved bookings, the k-th successful booking of a
\* department and date returns and stores the code made of the department's
\* first three letters in upper case, the date without dashes, "-" and k as
\* three digits, for k from 1 to DEPARTMENT_CAPACITY.
C8_BookingCode ==
    [][\A p \in Procs :
        (create_appointment_insert(p) /\ last'.status_code = 200) =>
            LET req == payload[p]
                k == CountFor(store', req)
            IN /\ k \in 1 .. DEPARTMENT_CAPACITY
               /\ last'.body.booking_code =
                     ExpectedPrefix(req.department) \o ExpectedDate(req.date)
                        \o <<"-">> \o ThreeDigits(k)
               /\ store'[Len(store')].booking_code = last'.body.booking_code
      ]_vars

\* the second booking of Cardiology on 2024-05-01 got CAR20240501-002
C8_Witness ==
    /\ Len(store) = 2
    /\ last.op = "create_appointment"
    /\ last.status_code = 200
    /\ last.body.booking_code =
          <<"C", "A", "R", "2", "0", "2", "4", "0", "5", "0", "1", "-", "0", "0", "2">>
    /\ store[2].booking_code = last.body.booking_code

\* C9: with non-interleaved bookings, no two stored appointments of one
\* department and date share a booking code, and no step changes the booking
\* code of a stored appointment.
C9_CodesUniqueAndFixed ==
    [][/\ calls = 0 => ~DuplicateCodes(store)
       /\ store' # store => ~DuplicateCodes(store')
       /\ \A i \in DOMAIN store :
            /\ i \in DOMAIN store'
            /\ "booking_code" \in DOMAIN store'[i]
            /\ store'[i].booking_code = store[i].booking_code
      ]_vars

\* two bookings were made for one department and date and the first is
\* checked in
C9_Witness ==
    /\ CountIn(store, Cardiology, Date1) = 2
    /\ store[1].status = "checked_in"
    /\ store[1].booking_code # store[2].booking_code

\* the handlers of the read endpoints
ReadOps ==
    {"get_departments", "get_availability", "calendar_availability",
     "list_appointments", "patients_tracking"}

\* thread p has run the handler of a read endpoint
ReadOnly(p) == pc[p] = "idle" /\ \E op \in ReadOps : Returned(p, op)

\* C10: the store grows only in a step of create_appointment, a stored
\* appointment changes only in a step of check_in, none is removed, the read
\* endpoints leave the store as it is, and the number of appointments of a
\* department and date never decreases.
C10_Lifecycle ==
    [][/\ store' # store =>
            /\ Len(store') >= Len(store)
            /\ \A i \in DOMAIN store : store'[i].id = store[i].id
            /\ \A r \in CreatePayloads : CountFor(store', r) >= CountFor(store, r)
            /\ Len(store') > Len(store) =>
                \E p \in Procs : pc[p] = "insert" /\ Returned(p, "create_appointment")
            /\ (\E i \in DOMAIN store : store'[i] # store[i]) =>
                \E p \in Procs : pc[p] = "update" /\ Returned(p, "check_in")
       /\ \A p \in Procs : ReadOnly(p) => store' = store
      ]_vars

\* the patients list was read after a booking and a check-in
C10_Witness ==
    /\ last.op = "patients_tracking"
    /\ last.status_code = 200
    /\ Len(store) = DEPARTMENT_CAPACITY
    /\ \E i \in DOMAIN store : store[i].status = "checked_in"

\* in this step thread p has run check_in up to its lookup: it has returned,
\* or it has found a booked appointment
CheckInFindStep(p) ==
    /\ pc[p] = "idle"
    /\ pc'[p] = "update" \/ Returned(p, "check_in")

\* one of the four fallback fields of request r is not given
FieldAbsent(r) ==
    \E f \in {"patient_name", "phone", "department", "date"} : r[f] = None

\* request r gives no booking code
NoBookingCode(r) == r.booking_code = None

\* the stored appointments request r asks for: the ones with its booking
\* code, or without one the ones equal to it on all four fields
Asked(s, r) ==
    {i \in DOMAIN s :
        IF NoBookingCode(r)
        THEN /\ s[i].patient_name = r.patient_name
             /\ s[i].phone = r.phone
             /\ s[i].department = r.department
             /\ s[i].date = r.date
        ELSE s[i].booking_code = r.booking_code}

\* C11 as stated: a check_in without booking code and with one of
\* patient_name, phone, department and date absent fails with
\* MissingCheckInFields, one whose lookup matches no appointment fails with
\* AppointmentNotFound, and neither changes the store.
C11_AsStated ==
    [][\A p \in Procs :
        CheckInFindStep(p) =>
            LET req == FoundRequest(p)
            IN /\ (NoBookingCode(req) /\ FieldAbsent(req)) =>
                    /\ pc'[p] = "idle"
                    /\ last'.status_code = 400
                    /\ last'.detail = MissingCheckInFields
                    /\ store' = store
               /\ (~(NoBookingCode(req) /\ FieldAbsent(req))
                        /\ Asked(store, req) = {}) =>
                    /\ pc'[p] = "idle"
                    /\ last'.status_code = 404
                    /\ last'.detail = AppointmentNotFound
                    /\ store' = store
      ]_vars

\* C11, amended: with the document store initialized, a check_in without
\* booking code and with one of patient_name, phone, department and date
\* absent fails with MissingCheckInFields, one whose lookup matches no
\* appointment fails with AppointmentNotFound, and neither changes the store;
\* without the store every check_in fails with DatabaseNotAvailable.
C11_CheckInFailures ==
    [][\A p \in Procs :
        CheckInFindStep(p) =>
            LET req == FoundRequest(p)
            IN /\ (db /\ NoBookingCode(req) /\ FieldAbsent(req)) =>
                    /\ pc'[p] = "idle"
                    /\ last'.status_code = 400
                    /\ last'.detail = MissingCheckInFields
                    /\ store' = store
               /\ (db /\ ~(NoBookingCode(req) /\ FieldAbsent(req))
                        /\ Asked(store, req) = {}) =>
                    /\ pc'[p] = "idle"
                    /\ last'.status_code = 404
                    /\ last'.detail = AppointmentNotFound
                    /\ store' = store
               /\ ~db =>
                    /\ pc'[p] = "idle"
                    /\ last'.status_code = 500
                    /\ last'.detail = DatabaseNotAvailable
                    /\ store' = store
      ]_vars

\* a check_in without department was refused while appointments are stored,
\* one of them checked in
C11_Witness ==
    /\ last.op = "check_in"
    /\ last.status_code = 400
    /\ last.detail = MissingCheckInFields
    /\ last.payload.booking_code = None
    /\ last.payload.department = None
    /\ Len(store) > 0
    /\ store[1].status = "checked_in"

\* the first stored appointment that bears the booking code
FirstWithCode(s, code) ==
    CHOOSE i \in DOMAIN s :
        /\ s[i].booking_code = code
        /\ \A j \in 1 .. (i - 1) : s[j].booking_code # code

\* C12: with the store initialized, a check_in that gives a booking code
\* looks at the booking code alone, whatever patient_name, phone, department
\* and date it also gives: it fails with AppointmentNotFound exactly when no
\* stored appointment bears the code, otherwise it finds the first
\* appointment bearing it, returns at once if that one is checked in, and
\* else stores it as checked in and returns its identifier and code.
C12_MatchByCodeAlone ==
    [][\A p \in Procs :
        /\ (db /\ CheckInFindStep(p) /\ ~NoBookingCode(FoundRequest(p))) =>
            LET code == FoundRequest(p).booking_code
                bearing == {i \in DOMAIN store : store[i].booking_code = code}
            IN IF bearing = {} THEN
                    /\ pc'[p] = "idle"
                    /\ last'.status_code = 404
               ELSE LET doc == store[FirstWithCode(store, code)]
                    IN IF doc.status = "checked_in" THEN
                            /\ pc'[p] = "idle"
                            /\ last'.status_code = 200
                            /\ last'.body.id = Decimal(doc.id)
                            /\ last'.body.booking_code = code
                       ELSE /\ pc'[p] = "update"
                            /\ appt'[p] = doc
        /\ (pc[p] = "update" /\ ~NoBookingCode(payload[p])
                /\ Returned(p, "check_in")) =>
            /\ last'.status_code = 200
            /\ last'.payload = payload[p]
            /\ last'.body.booking_code = payload[p].booking_code
            /\ \E i \in DOMAIN store' :
                /\ Decimal(store'[i].id) = last'.body.id
                /\ store'[i].booking_code = payload[p].booking_code
                /\ store'[i].status = "checked_in"
      ]_vars

\* the one request made gave the code of Ann's Cardiology appointment of
\* 2024-05-01 with Bob's name, General and 2024-05-02, and Ann's appointment
\* is checked in
C12_Witness ==
    /\ calls = 1
    /\ last.op = "check_in"
    /\ last.status_code = 200
    /\ last.payload =
          CheckInRequest(BookingCode(Cardiology, Date1, 1), Bob, Phone, General, Date2)
    /\ store[1].status = "checked_in"
    /\ store[1].patient_name = Ann
    /\ store[1].department = Cardiology
    /\ store[1].date = Date1
    /\ last.body.booking_code = store[1].booking_code

\* the operations that read or write the store on every call
StoreOps == {"get_availability", "calendar_availability", "create_appointment", "check_in"}

\* C13: without the document store, every call of get_availability,
\* calendar_availability, create_appointment and check_in that passes the
\* validation of its input returns an error that says the store is not
\* available, and none returns a successful result.
C13_StoreUnavailable ==
    [][\A p \in Procs : \A op \in StoreOps :
        (~db /\ Returned(p, op) /\ last'.status_code \notin {400, 422}) =>
            /\ last'.status_code = 500
            /\ last'.detail = DatabaseNotAvailable
      ]_vars

\* the number of stored appointments with exactly that department and date
Persisted(s, department, date) ==
    Cardinality({i \in DOMAIN s : s[i].department = department /\ s[i].date = date})

\* C14: after any bookings and check-ins, interleaved or not, a
\* get_availability call answers for the department and date it was asked
\* about, with booked equal to the number of stored appointments of exactly
\* that department and date, and with remaining + booked = capacity when
\* booked is at most the capacity, and remaining = 0 otherwise.
C14_AvailabilityCounts ==
    [][\A p \in Procs :
        (pc[p] = "idle" /\ Returned(p, "get_availability")
                /\ last'.status_code = 200) =>
            LET b == last'.body
            IN /\ b.department = last'.payload.department
               /\ b.date = last'.payload.date
               /\ b.capacity = DEPARTMENT_CAPACITY
               /\ b.booked = Persisted(store, b.department, b.date)
               /\ b.booked <= b.capacity => b.remaining + b.booked = b.capacity
               /\ b.booked > b.capacity => b.remaining = 0
      ]_vars

\* get_availability was asked about a department and date that two
\* interleaved bookings have overbooked
C14_Witness ==
    /\ last.op = "get_availability"
    /\ last.status_code = 200
    /\ Len(store) = DEPARTMENT_CAPACITY + 1
    /\ last.body.booked = DEPARTMENT_CAPACITY + 1
    /\ last.body.remaining = 0

\* C15: with non-interleaved bookings, every used_pct that get_availability
\* and calendar_availability report is 4 times the booked count reported with
\* it, which is round(booked / 25 * 100), and lies between 0 and 100; and so
\* does the used_pct of every department and date that holds appointments.
C15_UsedPct ==
    [][/\ \A p \in Procs :
            /\ (pc[p] = "idle" /\ Returned(p, "get_availability")
                    /\ last'.status_code = 200) =>
                /\ last'.body.used_pct = 4 * last'.body.booked
                /\ last'.body.used_pct \in 0 .. 100
            /\ (pc[p] = "idle" /\ Returned(p, "calendar_availability")
                    /\ last'.status_code = 200) =>
                \A i \in DOMAIN last'.body.days :
                    /\ last'.body.days[i].used_pct = 4 * last'.body.days[i].booked
                    /\ last'.body.days[i].used_pct \in 0 .. 100
       /\ store' # store =>
            \A r \in {[department |-> store'[i].department, date |-> store'[i].date] :
                        i \in DOMAIN store'} :
                /\ UsedPct(CountFor(store', r)) = 4 * Persisted(store', r.department, r.date)
                /\ UsedPct(CountFor(store', r)) \in 0 .. 100
      ]_vars

\* get_availability reported a full department and date as 100 per cent used
C15_Witness ==
    /\ last.op = "get_availability"
    /\ last.status_code = 200
    /\ last.body.booked = DEPARTMENT_CAPACITY
    /\ last.body.used_pct = 100
    /\ Persisted(store, Cardiology, Date1) = DEPARTMENT_CAPACITY

\* the positions of the stored appointments a patients list for that date
\* covers: all of them when no date is given
OnDate(s, date) == {i \in DOMAIN s : date = None \/ s[i].date = date}

\* C16: after any bookings and check-ins, a patients_tracking call that
\* returns reports as total the number of stored appointments of the date
\* asked for (of all, without a date), as checked_in the number of those
\* stored as checked_in, as booked the number of the others, so that total =
\* checked_in + booked; with one appointment stored for the date and checked
\* in, the summary is checked_in 1, booked 0, total 1.
C16_PatientsSummary ==
    [][\A p \in Procs :
        (pc[p] = "idle" /\ Returned(p, "patients_tracking")
                /\ last'.status_code = 200) =>
            LET sel == OnDate(store, last'.payload.date)
                done == {i \in sel : store[i].status = "checked_in"}
                s == last'.body.summary
            IN /\ s.total = Cardinality(sel)
               /\ s.checked_in = Cardinality(done)
               /\ s.booked = Cardinality(sel \ done)
               /\ s.total = s.checked_in + s.booked
               /\ Len(last'.body.patients) = s.total
               /\ (sel = {1} /\ done = {1}) =>
                    s = [total |-> 1, checked_in |-> 1, booked |-> 0]
      ]_vars

\* one booking, one check_in with the code it returned, then the patients
\* list of 2024-05-01: checked_in 1, booked 0, total 1
C16_Witness ==
    /\ calls = 3
    /\ last.op = "patients_tracking"
    /\ last.status_code = 200
    /\ last.payload.date = Date1
    /\ last.body.summary = [total |-> 1, checked_in |-> 1, booked |-> 0]
    /\ Len(store) = 1
    /\ store[1].date = Date1
    /\ store[1].status = "checked_in"
    /\ store[1].booking_code = BookingCode(Cardiology, Date1, 1)

\* the number of days of each month of a year that is not a leap year
MonthLengths == <<31, 28, 31, 30, 31, 30, 31, 31, 30, 31, 30, 31>>

\* the leap years from 1970 to 2100: every fourth year but 2100
LeapYears == {y \in 1970 .. 2100 : y % 4 = 0} \ {2100}

\* the number of days of that month
ExpectedLength(year, month) ==
    IF month = 2 /\ year \in LeapYears THEN 29 ELSE MonthLengths[month]

\* the digit each of the characters "0" to "9" stands for
DigitValues ==
    [c \in {"0", "1", "2", "3", "4", "5", "6", "7", "8", "9"} |->
        CASE c = "0" -> 0 [] c = "1" -> 1 [] c = "2" -> 2 [] c = "3" -> 3
          [] c = "4" -> 4 [] c = "5" -> 5 [] c = "6" -> 6 [] c = "7" -> 7
          [] c = "8" -> 8 [] c = "9" -> 9]

DigitValue(c) == DigitValues[c]

\* the year, month and day an ISO date string names
KeyYear(k) ==
    1000 * DigitValue(k[1]) + 100 * DigitValue(k[2]) + 10 * DigitValue(k[3])
        + DigitValue(k[4])

KeyMonth(k) == 10 * DigitValue(k[6]) + DigitValue(k[7])

KeyDay(k) == 10 * DigitValue(k[9]) + DigitValue(k[10])

\* C17: for every year from 1970 to 2100 and month from 1 to 12 asked of a
\* known department, calendar_availability returns one entry for each day of
\* that month and no other, keyed by the ISO date of the day, in ascending
\* day order, and each entry's booked, remaining, used_pct and capacity are
\* the ones get_availability reports for that department and date; a year or
\* month outside the range is refused.
C17_Calendar ==
    [][\A p \in Procs :
        (pc[p] = "idle" /\ Returned(p, "calendar_availability")) =>
            LET q == last'.payload
            IN /\ (q.year \notin 1970 .. 2100 \/ q.month \notin 1 .. 12) =>
                    last'.status_code = 422
               /\ (/\ q.year \in 1970 .. 2100
                   /\ q.month \in 1 .. 12
                   /\ In(q.department, DEPARTMENTS)) =>
                    /\ last'.status_code = 200
                    /\ Len(last'.body.days) = ExpectedLength(q.year, q.month)
                    /\ \A i \in DOMAIN last'.body.days :
                        LET e == last'.body.days[i]
                        IN /\ Len(e.date) = 10
                           /\ e.date[5] = "-"
                           /\ e.date[8] = "-"
                           /\ KeyYear(e.date) = q.year
                           /\ KeyMonth(e.date) = q.month
                           /\ KeyDay(e.date) = i
                           /\ AvailabilityBody(q.department, e.date) =
                                 [department |-> q.department, date |-> e.date,
                                  capacity |-> e.capacity, booked |-> e.booked,
                                  remaining |-> e.remaining,
                                  used_pct |-> e.used_pct]
                           /\ e.booked = Persisted(store, q.department, e.date)
      ]_vars

\* the calendar of February 2023 has 28 entries, the last for 2023-02-28
C17_Witness ==
    /\ last.op = "calendar_availability"
    /\ last.status_code = 200
    /\ last.payload.year = 2023
    /\ last.payload.month = 2
    /\ Len(last.body.days) = 28
    /\ last.body.days[28].date = <<"2", "0", "2", "3", "-", "0", "2", "-", "2", "8">>
    /\ Len(store) = 2

\* C18: a create_appointment call writes nothing up to its capacity check
\* and fails there only on its input or for want of a slot; from there it
\* either fails and leaves the store as it is, or returns 200 and has added
\* exactly one appointment, the last, with the department and date of the
\* request, status booked, the booking code and identifier it returns and no
\* checked_in_at, every appointment stored before being unchanged.
C18_CreateFrame ==
    [][\A p \in Procs :
        /\ (pc[p] = "idle" /\ pc'[p] = "insert") => store' = store
        /\ (pc[p] = "idle" /\ Returned(p, "create_appointment")) =>
            /\ store' = store
            /\ last'.status_code \in {400, 422}
            /\ last'.detail \in {UnknownDepartment, NoSlots, ValidationError}
        /\ (pc[p] = "insert" /\ Returned(p, "create_appointment")) =>
            IF last'.status_code = 200 THEN
                /\ Len(store') = Len(store) + 1
                /\ \A i \in DOMAIN store : store'[i] = store[i]
                /\ LET doc == store'[Len(store')]
                   IN /\ doc.department = payload[p].department
                      /\ doc.date = payload[p].date
                      /\ doc.patient_name = payload[p].patient_name
                      /\ doc.status = "booked"
                      /\ doc.booking_code = last'.body.booking_code
                      /\ Decimal(doc.id) = last'.body.id
                      /\ ~HasCheckedInAt(doc)
                      /\ \A i \in DOMAIN store : store[i].id # doc.id
                /\ last'.body.status = "booked"
            ELSE
                /\ store' = store
                /\ last'.status_code = 500
                /\ db => last'.detail = ValidationError
      ]_vars

\* a booking was added behind an appointment that is checked in
C18_Witness ==
    /\ last.op = "create_appointment"
    /\ last.status_code = 200
    /\ Len(store) >= 2
    /\ store[1].status = "checked_in"
    /\ HasCheckedInAt(store[1])
    /\ store[Len(store)].booking_code = last.body.booking_code
    /\ store[Len(store)].status = "booked"
    /\ ~HasCheckedInAt(store[Len(store)])

\* the departments and dates that hold appointments in s
Pairs(s) == {[department |-> s[i].department, date |-> s[i].date] : i \in DOMAIN s}

\* C19: with non-interleaved bookings, a check_in by booking code that
\* writes changes exactly one stored appointment, the one bearing
\* the code: its status becomes checked_in, it gets a checked_in_at, and its
\* other fields stay; every other appointment stays as it is, none is added
\* or removed, and the booked count and the remaining capacity of every
\* department and date stay the same.  A check_in that does not write
\* changes nothing.
C19_CheckInFrame ==
    [][\A p \in Procs :
        /\ (pc[p] = "update" /\ ~NoBookingCode(payload[p])
                /\ Returned(p, "check_in")) =>
            LET code == payload[p].booking_code
                bearing == {i \in DOMAIN store : store[i].booking_code = code}
            IN /\ Cardinality(bearing) = 1
               /\ last'.status_code = 200
               /\ last'.body.booking_code = code
               /\ Len(store') = Len(store)
               /\ \A i \in DOMAIN store :
                    IF i \in bearing THEN
                        /\ store'[i].status = "checked_in"
                        /\ DOMAIN store'[i] = DOMAIN store[i] \cup {"checked_in_at"}
                        /\ \A f \in DOMAIN store[i] \ {"status", "checked_in_at"} :
                            store'[i][f] = store[i][f]
                    ELSE store'[i] = store[i]
               /\ Pairs(store') = Pairs(store)
               /\ \A r \in Pairs(store) :
                    /\ Persisted(store', r.department, r.date)
                          = Persisted(store, r.department, r.date)
                    /\ Remaining(CountFor(store', r)) = Remaining(CountFor(store, r))
        /\ (pc[p] = "idle" /\ Returned(p, "check_in")) => store' = store
      ]_vars

\* a check_in by booking code has checked in the Cardiology appointment it
\* names, and a General appointment booked before it is still booked
C19_Witness ==
    /\ last.op = "check_in"
    /\ last.status_code = 200
    /\ last.payload.booking_code = BookingCode(Cardiology, Date1, 1)
    /\ store[1].booking_code = last.payload.booking_code
    /\ store[1].status = "checked_in"
    /\ store[1].checked_in_at = clock
    /\ \E i \in DOMAIN store :
        /\ store[i].department = General
        /\ store[i].status = "booked"
        /\ ~HasCheckedInAt(store[i])

====
